---- MODULE Spec2Model ----
(***************************************************************************)
(* The browser client of "Paige's Inner Circle": the session store         *)
(* (AuthProvider), the auth service, the axios instance with its response  *)
(* interceptor, the route guards and the form validators.                  *)
(*                                                                         *)
(* JavaScript runs one task at a time.  An HTTP response is delivered as a *)
(* task: the response interceptor runs first (Respond), and the code that  *)
(* awaits the call continues in the microtasks of that same task           *)
(* (the Continue actions), before any other task can run.  micro holds     *)
(* the settled promise between those two steps.                            *)
(***************************************************************************)
EXTENDS Integers, Sequences, FiniteSets, Bags, TLC

VARIABLES
    cookie,           \* the auth_token cookie (js-cookie)
    storage,          \* the member_data record of localStorage
    member,           \* AuthProvider state: member
    loading,          \* AuthProvider state: loading
    isAuthenticated,  \* AuthProvider state: isAuthenticated
    href,             \* a pending full-page navigation (window.location.href = ...)
    phase,            \* "boot": mounted, the initializeAuth effect has not run yet
    inflight,         \* the bag of API calls whose HTTP request awaits its outcome
    micro,            \* the promise the interceptor has just settled, if any
    returned,         \* what the operation that finished in the last step returned
    email,            \* the text handed to validateEmail
    emailResult,      \* what validateEmail returned for it
    phone,            \* the text handed to formatPhoneNumber
    phoneResult,      \* what formatPhoneNumber returned for it
    phoneCheck,       \* what validatePhone returned for it
    rendered,         \* what the route guard rendered last returned
    form,             \* EmailAccessForm state: error and loading of the mounted instance
    passPage,         \* PassAccessPage state and the route it has left for
    payPage,          \* PaymentVerification state: list, filter and verify modal
    rsvpPage,         \* RSVPPage and RSVPButtons state
    walk,             \* the member page that is mounted and how it was reached
    backend           \* the answers of a backend whose state does not change

sessionVars == <<cookie, storage, member, loading, isAuthenticated, href, phase,
                 inflight, micro, returned>>
sessionVarsButReturned == <<cookie, storage, member, loading, isAuthenticated,
                            href, phase, inflight, micro>>
emailVars == <<email, emailResult>>
phoneVars == <<phone, phoneResult, phoneCheck>>
flowVars == <<payPage, rsvpPage, walk, backend>>
pageVars == <<rendered, form, passPage, payPage, rsvpPage, walk, backend>>
vars == <<cookie, storage, member, loading, isAuthenticated, href, phase,
          inflight, micro, returned, email, emailResult, phone, phoneResult,
          phoneCheck, rendered, form, passPage, payPage, rsvpPage, walk, backend>>

----------------------------------------------------------------------------
(* Bounds of the model. *)

\* The number of API calls that may await their response at the same time.
MaxInFlight == 2

\* The number of times the automatic redirects may lead to the same page.
MaxRedirects == 2

\* The longest text typed into the email field.
MaxEmailLen == 6

\* The longest text typed into the phone field, and the most characters of it
\* that are not digits.
MaxPhoneLen == 11
MaxNonDigits == 1

----------------------------------------------------------------------------
(* JavaScript values. *)

Undefined == [t |-> "undefined"]
Null == [t |-> "null"]
Str(s) == [t |-> "string", v |-> s]
\* A JSON array (such as the list of validation errors a backend puts in "detail").
ArrayVal == [t |-> "array"]

\* ToBoolean
Truthy(x) ==
    CASE x.t = "undefined" -> FALSE
      [] x.t = "null" -> FALSE
      [] x.t = "string" -> x.v # ""
      [] OTHER -> TRUE

\* a || b
Or(a, b) == IF Truthy(a) THEN a ELSE b

\* String.prototype.endsWith on sequences of characters
EndsWith(s, suffix) ==
    /\ Len(s) >= Len(suffix)
    /\ SubSeq(s, Len(s) - Len(suffix) + 1, Len(s)) = suffix

----------------------------------------------------------------------------
(* The data the backend sends. *)

OrgDomain ==
    <<"@", "p", "a", "i", "g", "e", "i", "n", "n", "e", "r", "c", "i", "r",
      "c", "l", "e", ".", "c", "o", "m">>

GuestEmail == <<"g", "@", "x", ".", "i", "o">>
StaffEmail == <<"s">> \o OrgDomain
LookalikeEmail == <<"g">> \o OrgDomain \o <<".", "x">>

MemberObj(tier, mail) == [t |-> "object", membership_tier |-> tier, email |-> mail]

Members ==
    { MemberObj("vip", GuestEmail),
      MemberObj("admin", GuestEmail),
      MemberObj("vip", StaffEmail),
      MemberObj("inner_circle", LookalikeEmail),
      [t |-> "object", membership_tier |-> "vip"] }

Tokens == {"token-1", "token-2"}

NoCookie == "<absent>"

\* JSON.stringify / JSON.parse between an object and the text localStorage keeps.
JSONstringify(v) == [present |-> TRUE, json |-> TRUE, val |-> v]
CorruptText == [present |-> TRUE, json |-> FALSE]
NoItem == [present |-> FALSE]

JSONparse(text) ==
    IF text.json THEN [threw |-> FALSE, val |-> text.val] ELSE [threw |-> TRUE]

StoredTexts == {NoItem, CorruptText, JSONstringify(Null)} \cup {JSONstringify(m) : m \in Members}

NoNav == "<none>"
Idle == [t |-> "idle"]
NoReturn == [op |-> "none"]

----------------------------------------------------------------------------
(* The outcomes of an HTTP request, as axios reports them. *)

ErrorStatuses == {401, 403, 404, 422, 500}

ErrorBodies ==
    { Null,
      [t |-> "object"],
      [t |-> "object", detail |-> Str("This invitation is reserved")],
      [t |-> "object", detail |-> ArrayVal] }

HttpErrors == [kind : {"response"}, status : ErrorStatuses, data : ErrorBodies]
NoResponse == [kind |-> "request"]
SetupErrors == [kind : {"setup"}, message : {Str(""), Str("Invalid URL")}]
Failures == HttpErrors \cup {NoResponse} \cup SetupErrors

\* The bodies GET /api/payment/status/:token answers with.
PaymentStatusBodies ==
    { [t |-> "object", status |-> Str("verified")],
      [t |-> "object", status |-> Str("pending")],
      [t |-> "object", status |-> Str("rejected")],
      [t |-> "object"],
      Null }

\* Bodies of GET /api/events/current.
EventBodies ==
    { [t |-> "object", id |-> [t |-> "number", v |-> 1]], [t |-> "object"], Null }

\* Bodies of GET /api/rsvp/me.
RsvpBodies ==
    { [t |-> "object", has_rsvp |-> TRUE, rsvp_status |-> Str("accepted"),
       legacy_pass_token |-> Str("tok")],
      [t |-> "object", has_rsvp |-> TRUE, rsvp_status |-> Str("accepted"),
       legacy_pass_token |-> Str("tok"), status |-> Str("accepted")],
      [t |-> "object", has_rsvp |-> TRUE, rsvp_status |-> Str("accepted")],
      [t |-> "object", has_rsvp |-> TRUE, rsvp_status |-> Str("declined"),
       status |-> Str("declined")],
      [t |-> "object", has_rsvp |-> FALSE],
      Null }

SuccessData(op) ==
    CASE op = "login" -> [access_token : Tokens, member : Members]
      [] op \in {"init", "refresh"} -> Members
      [] op = "paymentStatus" -> PaymentStatusBodies
      [] op = "fullPass" -> {[t |-> "object", pass_number |-> "LP-1"]}
      [] op = "rsvpEvent" -> EventBodies
      [] op \in {"rsvpMe", "checkRsvp", "legacyRsvp"} -> RsvpBodies
      [] op \in {"checkStatus", "legacyStatus"} -> PaymentStatusBodies
      [] OTHER -> {[t |-> "object"]}

Successes(op) == [kind : {"response"}, status : {200}, data : SuccessData(op)]
\* The pass and payment endpoints also answer 402 Payment Required.
PaymentRequired(op) ==
    IF op \in {"paymentStatus", "fullPass", "passEvent", "passBenefits",
               "checkStatus", "legacyStatus", "legacyPreview"}
    THEN [kind : {"response"}, status : {402}, data : ErrorBodies]
    ELSE {}

Outcomes(op) == Successes(op) \cup Failures \cup PaymentRequired(op)

IsSuccess(o) == o.kind = "response" /\ o.status >= 200 /\ o.status < 300

TypeErrorNullDetail ==
    [name |-> "TypeError", message |-> Str("Cannot read properties of null (reading 'detail')")]

\* data.detail
Detail(data) == IF "detail" \in DOMAIN data THEN data.detail ELSE Undefined

----------------------------------------------------------------------------
(* services/api.js: the response interceptor. *)

\* The handler with the 401 case removing the cookie only.
ResponseInterceptor_KeepsProfile(o) ==
    IF o.kind = "response" THEN
        [ cookie |-> IF o.status = 401 THEN NoCookie ELSE cookie,
          storage |-> storage,
          href |-> IF o.status = 401 THEN "/access" ELSE href,
          error |-> IF o.data.t = "null"
                    THEN TypeErrorNullDetail
                    ELSE [ status |-> o.status,
                           message |-> Or(Detail(o.data), Str("An unexpected error occurred")),
                           data |-> o.data ] ]
    ELSE IF o.kind = "request" THEN
        [ cookie |-> cookie, storage |-> storage, href |-> href,
          error |-> [ status |-> 0,
                      message |-> Str("Network error. Please check your connection.") ] ]
    ELSE
        [ cookie |-> cookie, storage |-> storage, href |-> href,
          error |-> [ status |-> 0,
                      message |-> Or(o.message, Str("An error occurred")) ] ]

\* The error handler of api.interceptors.response: what it leaves in the cookie,
\* in localStorage and in window.location.href, and the value it rejects with.
\* Reading data.detail of a null body throws a TypeError, which becomes the
\* rejection in place of the normalized object.
ResponseInterceptor(o) ==
    IF o.kind = "response" THEN
        [ cookie |-> IF o.status = 401 THEN NoCookie ELSE cookie,
          storage |-> IF o.status = 401 THEN NoItem ELSE storage,
          href |-> IF o.status = 401 THEN "/access" ELSE href,
          error |-> IF o.data.t = "null"
                    THEN TypeErrorNullDetail
                    ELSE [ status |-> o.status,
                           message |-> Or(Detail(o.data), Str("An unexpected error occurred")),
                           data |-> o.data ] ]
    ELSE IF o.kind = "request" THEN
        [ cookie |-> cookie, storage |-> storage, href |-> href,
          error |-> [ status |-> 0,
                      message |-> Str("Network error. Please check your connection.") ] ]
    ELSE
        [ cookie |-> cookie, storage |-> storage, href |-> href,
          error |-> [ status |-> 0,
                      message |-> Or(o.message, Str("An error occurred")) ] ]

\* The outcome of a request arrives: a 2xx response passes through the success
\* handler, everything else through the error handler.  The promise of the call
\* is settled; its awaiter has not run yet.
Respond ==
    \E c \in BagToSet(inflight) : \E o \in Outcomes(c.op) :
        /\ micro = Idle
        /\ IF IsSuccess(o)
           THEN /\ micro' = [t |-> "settled", call |-> c, outcome |-> o,
                             result |-> [ok |-> TRUE, response |-> o]]
                /\ UNCHANGED <<cookie, storage, href>>
           ELSE LET i == ResponseInterceptor(o)
                IN /\ micro' = [t |-> "settled", call |-> c, outcome |-> o,
                                result |-> [ok |-> FALSE, error |-> i.error]]
                   /\ cookie' = i.cookie
                   /\ storage' = i.storage
                   /\ href' = i.href
        /\ inflight' = inflight (-) SetToBag({c})
        /\ returned' = NoReturn
        /\ UNCHANGED <<member, loading, isAuthenticated, phase, emailVars, phoneVars, pageVars>>

----------------------------------------------------------------------------
(* services/authService.js *)

\* isAuthenticated(): !!Cookies.get('auth_token')
checkAuth == cookie # NoCookie /\ cookie # ""

\* getStoredMember() that never finds a record.
getStoredMember_NeverCached == [threw |-> FALSE, val |-> Null]

\* getStoredMember(): the parsed member_data record, null when there is none.
getStoredMember ==
    IF storage.present THEN JSONparse(storage) ELSE [threw |-> FALSE, val |-> Null]

\* requestAccess storing the member but not the token.
requestAccess_NoToken(r) ==
    IF r.ok
    THEN [ threw |-> FALSE,
           value |-> [token |-> r.response.data.access_token,
                      member |-> r.response.data.member],
           cookie |-> cookie,
           storage |-> JSONstringify(r.response.data.member) ]
    ELSE [ threw |-> TRUE, error |-> r.error, cookie |-> cookie, storage |-> storage ]

\* requestAccess(email), from the settled POST on: it stores the token and the
\* member and returns them, or rethrows the rejection.
requestAccess(r) ==
    IF r.ok
    THEN [ threw |-> FALSE,
           value |-> [token |-> r.response.data.access_token,
                      member |-> r.response.data.member],
           cookie |-> r.response.data.access_token,
           storage |-> JSONstringify(r.response.data.member) ]
    ELSE [ threw |-> TRUE, error |-> r.error, cookie |-> cookie, storage |-> storage ]

\* getCurrentMember(), from the settled GET on.
getCurrentMember(r) ==
    IF r.ok
    THEN [ threw |-> FALSE, value |-> r.response.data,
           storage |-> JSONstringify(r.response.data) ]
    ELSE [ threw |-> TRUE, error |-> r.error, storage |-> storage ]

\* logout() clearing in its try block instead of its finally block.
logoutService_ClearsInTry(r) ==
    IF r.ok
    THEN [ threw |-> FALSE, cookie |-> NoCookie, storage |-> NoItem ]
    ELSE [ threw |-> FALSE, cookie |-> cookie, storage |-> storage ]

\* logout(), from the settled POST on: the rejection is swallowed and the
\* finally block removes the cookie and the record.
logoutService(r) ==
    [ threw |-> FALSE, cookie |-> NoCookie, storage |-> NoItem ]

----------------------------------------------------------------------------
(* contexts/AuthContext: AuthProvider *)

\* A call made through the api instance: its request is sent and awaits its outcome.
CanSend == BagCardinality(inflight) < MaxInFlight
Send(op) == inflight (+) SetToBag({[op |-> op]})

\* A catch block that only logs.
InitCatch_OnlyLogs == [member |-> member, isAuthenticated |-> isAuthenticated]

\* The catch block of initializeAuth.
InitCatch == [member |-> Null, isAuthenticated |-> FALSE]

\* The finally block of initializeAuth.
InitFinally == FALSE

\* initializeAuth up to its await (the mount effect).
InitializeAuth ==
    /\ phase = "boot"
    /\ phase' = "ready"
    /\ IF checkAuth
       THEN LET stored == getStoredMember
            IN IF stored.threw
               THEN /\ member' = InitCatch.member
                    /\ isAuthenticated' = InitCatch.isAuthenticated
                    /\ loading' = InitFinally
                    /\ returned' = [op |-> "init", threw |-> FALSE,
                                    outcome |-> [kind |-> "cache", corrupt |-> TRUE]]
                    /\ UNCHANGED inflight
               ELSE IF Truthy(stored.val)
               THEN /\ member' = stored.val
                    /\ isAuthenticated' = TRUE
                    /\ loading' = InitFinally
                    /\ returned' = [op |-> "init", threw |-> FALSE,
                                    outcome |-> [kind |-> "cache", corrupt |-> FALSE]]
                    /\ UNCHANGED inflight
               ELSE /\ inflight' = Send("init")
                    /\ returned' = NoReturn
                    /\ UNCHANGED <<member, isAuthenticated, loading>>
       ELSE /\ loading' = InitFinally
            /\ returned' = [op |-> "init", threw |-> FALSE, outcome |-> [kind |-> "none"]]
            /\ UNCHANGED <<member, isAuthenticated, inflight>>
    /\ UNCHANGED <<cookie, storage, href, micro, emailVars, phoneVars, pageVars>>

\* initializeAuth after its await.
ContinueInit ==
    /\ micro # Idle
    /\ micro.call.op = "init"
    /\ LET s == getCurrentMember(micro.result)
       IN /\ storage' = s.storage
          /\ IF s.threw
             THEN /\ member' = InitCatch.member
                  /\ isAuthenticated' = InitCatch.isAuthenticated
             ELSE /\ member' = s.value
                  /\ isAuthenticated' = TRUE
    /\ loading' = InitFinally
    /\ returned' = [op |-> "init", threw |-> FALSE, outcome |-> micro.outcome]
    /\ micro' = Idle
    /\ UNCHANGED <<cookie, href, phase, inflight, emailVars, phoneVars, pageVars>>

\* login(email) up to its await.
Login ==
    /\ phase = "ready"
    /\ micro = Idle
    /\ CanSend
    /\ loading' = TRUE
    /\ inflight' = Send("login")
    /\ returned' = NoReturn
    /\ UNCHANGED <<cookie, storage, member, isAuthenticated, href, phase, micro,
                   emailVars, phoneVars, pageVars>>

\* What login resolves to when requestAccess rejected with error.
LoginFailure(error) ==
    [success |-> FALSE, error |-> Or(error.message, Str("Login failed. Please try again."))]

\* login(email) with a catch block that clears the in-memory session.
ContinueLogin_ClearsOnFailure ==
    /\ micro # Idle
    /\ micro.call.op = "login"
    /\ micro.t = "settled"
    /\ LET s == requestAccess(micro.result)
       IN /\ cookie' = s.cookie
          /\ storage' = s.storage
          /\ IF s.threw
             THEN /\ returned' = [op |-> "login", threw |-> FALSE,
                                  value |-> LoginFailure(s.error),
                                  outcome |-> micro.outcome]
                  /\ member' = Null
                  /\ isAuthenticated' = FALSE
             ELSE /\ member' = s.value.member
                  /\ isAuthenticated' = TRUE
                  /\ returned' = [op |-> "login", threw |-> FALSE,
                                  value |-> [success |-> TRUE, member |-> s.value.member],
                                  outcome |-> micro.outcome]
    /\ loading' = FALSE
    /\ micro' = IF "by" \in DOMAIN micro.call
              THEN [micro EXCEPT !.t = "resumed"]
              ELSE Idle
    /\ UNCHANGED <<href, phase, inflight, emailVars, phoneVars, pageVars>>

\* login(email) after its await. A form that awaits the call is resumed next.
ContinueLogin ==
    /\ micro # Idle
    /\ micro.call.op = "login"
    /\ micro.t = "settled"
    /\ LET s == requestAccess(micro.result)
       IN /\ cookie' = s.cookie
          /\ storage' = s.storage
          /\ IF s.threw
             THEN /\ returned' = [op |-> "login", threw |-> FALSE,
                                  value |-> LoginFailure(s.error),
                                  outcome |-> micro.outcome]
                  /\ UNCHANGED <<member, isAuthenticated>>
             ELSE /\ member' = s.value.member
                  /\ isAuthenticated' = TRUE
                  /\ returned' = [op |-> "login", threw |-> FALSE,
                                  value |-> [success |-> TRUE, member |-> s.value.member],
                                  outcome |-> micro.outcome]
    /\ loading' = FALSE
    /\ micro' = IF "by" \in DOMAIN micro.call
              THEN [micro EXCEPT !.t = "resumed"]
              ELSE Idle
    /\ UNCHANGED <<href, phase, inflight, emailVars, phoneVars, pageVars>>

\* logout() removing the cookie and the record before it sends its request.
Logout_ClearsBeforeRequest ==
    /\ phase = "ready"
    /\ micro = Idle
    /\ CanSend
    /\ loading' = TRUE
    /\ inflight' = Send("logout")
    /\ returned' = NoReturn
    /\ cookie' = NoCookie
    /\ storage' = NoItem
    /\ UNCHANGED <<member, isAuthenticated, href, phase, micro,
                   emailVars, phoneVars, pageVars>>

\* logout() up to its await.
Logout ==
    /\ phase = "ready"
    /\ micro = Idle
    /\ CanSend
    /\ loading' = TRUE
    /\ inflight' = Send("logout")
    /\ returned' = NoReturn
    /\ UNCHANGED <<cookie, storage, member, isAuthenticated, href, phase, micro,
                   emailVars, phoneVars, pageVars>>

\* The service's logout() after its await of the POST: its catch and finally
\* blocks run, and the promise AuthProvider.logout awaits is resolved.
LogoutServiceSettles ==
    /\ micro # Idle
    /\ micro.call.op = "logout"
    /\ micro.t = "settled"
    /\ LET s == logoutService(micro.result)
       IN /\ cookie' = s.cookie
          /\ storage' = s.storage
    /\ micro' = [micro EXCEPT !.t = "serviceDone"]
    /\ returned' = NoReturn
    /\ UNCHANGED <<member, loading, isAuthenticated, href, phase, inflight,
                   emailVars, phoneVars, pageVars>>

\* AuthProvider.logout() clearing the member but not isAuthenticated.
ContinueLogout_KeepsAuthenticated ==
    /\ micro # Idle
    /\ micro.call.op = "logout"
    /\ micro.t = "serviceDone"
    /\ UNCHANGED <<cookie, storage>>
    /\ member' = Null
    /\ UNCHANGED isAuthenticated
    /\ href' = "/"
    /\ loading' = FALSE
    /\ returned' = [op |-> "logout", threw |-> FALSE, outcome |-> micro.outcome]
    /\ micro' = Idle
    /\ UNCHANGED <<phase, inflight, emailVars, phoneVars, pageVars>>

\* AuthProvider.logout() after its await: the service call never rejects, so
\* the try block runs to its end (the catch block makes the same assignments).
ContinueLogout ==
    /\ micro # Idle
    /\ micro.call.op = "logout"
    /\ micro.t = "serviceDone"
    /\ UNCHANGED <<cookie, storage>>
    /\ member' = Null
    /\ isAuthenticated' = FALSE
    /\ href' = "/"
    /\ loading' = FALSE
    /\ returned' = [op |-> "logout", threw |-> FALSE, outcome |-> micro.outcome]
    /\ micro' = Idle
    /\ UNCHANGED <<phase, inflight, emailVars, phoneVars, pageVars>>

\* refreshMember() up to its await.
RefreshMember ==
    /\ phase = "ready"
    /\ micro = Idle
    /\ CanSend
    /\ inflight' = Send("refresh")
    /\ returned' = NoReturn
    /\ UNCHANGED <<cookie, storage, member, loading, isAuthenticated, href, phase,
                   micro, emailVars, phoneVars, pageVars>>

\* refreshMember() with a catch block that clears the member before rethrowing.
ContinueRefresh_ClearsOnFailure ==
    /\ micro # Idle
    /\ micro.call.op = "refresh"
    /\ LET s == getCurrentMember(micro.result)
       IN /\ storage' = s.storage
          /\ IF s.threw
             THEN /\ returned' = [op |-> "refresh", threw |-> TRUE, error |-> s.error,
                                  outcome |-> micro.outcome]
                  /\ member' = Null
             ELSE /\ member' = s.value
                  /\ returned' = [op |-> "refresh", threw |-> FALSE, value |-> s.value,
                                  outcome |-> micro.outcome]
    /\ micro' = Idle
    /\ UNCHANGED <<cookie, loading, isAuthenticated, href, phase, inflight,
                   emailVars, phoneVars, pageVars>>

\* refreshMember() after its await.
ContinueRefresh ==
    /\ micro # Idle
    /\ micro.call.op = "refresh"
    /\ LET s == getCurrentMember(micro.result)
       IN /\ storage' = s.storage
          /\ IF s.threw
             THEN /\ returned' = [op |-> "refresh", threw |-> TRUE, error |-> s.error,
                                  outcome |-> micro.outcome]
                  /\ UNCHANGED member
             ELSE /\ member' = s.value
                  /\ returned' = [op |-> "refresh", threw |-> FALSE, value |-> s.value,
                                  outcome |-> micro.outcome]
    /\ micro' = Idle
    /\ UNCHANGED <<cookie, loading, isAuthenticated, href, phase, inflight,
                   emailVars, phoneVars, pageVars>>

----------------------------------------------------------------------------
(* The pages: every other call made through the api instance. *)

\* A page sends a request of its own (events, RSVP, payment, pass, admin).
PageRequest ==
    /\ phase = "ready"
    /\ micro = Idle
    /\ CanSend
    /\ inflight' = Send("page")
    /\ returned' = NoReturn
    /\ UNCHANGED <<cookie, storage, member, loading, isAuthenticated, href, phase,
                   micro, emailVars, phoneVars, pageVars>>

\* The page sending its first request again from its catch block.
ContinuePage_Retries ==
    /\ micro # Idle
    /\ micro.call.op = "page"
    /\ inflight' = IF micro.result.ok THEN Send("rsvp") ELSE Send("page")
    /\ returned' = [op |-> "page", threw |-> FALSE, outcome |-> micro.outcome]
    /\ micro' = Idle
    /\ UNCHANGED <<cookie, storage, member, loading, isAuthenticated, href, phase,
                   emailVars, phoneVars, pageVars>>

\* The page's own handling of its settled first call (fetchDashboardData after
\* its first await): it touches no session state; after a success it sends
\* its second request, after a failure its catch block sends nothing.
ContinuePage ==
    /\ micro # Idle
    /\ micro.call.op = "page"
    /\ inflight' = IF micro.result.ok THEN Send("rsvp") ELSE inflight
    /\ returned' = [op |-> "page", threw |-> FALSE, outcome |-> micro.outcome]
    /\ micro' = Idle
    /\ UNCHANGED <<cookie, storage, member, loading, isAuthenticated, href, phase,
                   emailVars, phoneVars, pageVars>>

\* The page's handling of its settled second call: the inner catch block
\* swallows a rejection, and nothing more is sent.
ContinuePageRsvp ==
    /\ micro # Idle
    /\ micro.call.op = "rsvp"
    /\ returned' = [op |-> "rsvp", threw |-> FALSE, outcome |-> micro.outcome]
    /\ micro' = Idle
    /\ UNCHANGED <<cookie, storage, member, loading, isAuthenticated, href, phase,
                   inflight, emailVars, phoneVars, pageVars>>

\* The browser carries out the pending navigation: the document is replaced,
\* its requests are abandoned and the application mounts again.
PageLoad ==
    /\ href # NoNav
    /\ micro = Idle
    /\ href' = NoNav
    /\ member' = Null
    /\ loading' = TRUE
    /\ isAuthenticated' = FALSE
    /\ phase' = "boot"
    /\ inflight' = EmptyBag
    /\ returned' = NoReturn
    /\ UNCHANGED <<cookie, storage, micro, emailVars, phoneVars, pageVars>>

----------------------------------------------------------------------------
(* components/auth: the route guards, as functions of the session. *)

\* The check with && in place of ||.
IsAdmin_Both(m) ==
    /\ m.t = "object"
    /\ ("membership_tier" \in DOMAIN m /\ m.membership_tier = "admin")
    /\ ("email" \in DOMAIN m /\ EndsWith(m.email, OrgDomain))

\* member?.membership_tier === 'admin' || member?.email?.endsWith('@paigeinnercircle.com')
IsAdmin(m) ==
    /\ m.t = "object"
    /\ \/ ("membership_tier" \in DOMAIN m /\ m.membership_tier = "admin")
       \/ ("email" \in DOMAIN m /\ EndsWith(m.email, OrgDomain))

\* The guard with the redirect taken for every member who is not an admin.
AdminRoute_RedirectsNonAdmin(l, a, m) ==
    IF l THEN "spinner"
    ELSE IF ~a \/ ~IsAdmin(m) THEN "navigate:/access"
    ELSE "children"

AdminRoute(l, a, m) ==
    IF l THEN "spinner"
    ELSE IF ~a THEN "navigate:/access"
    ELSE IF ~IsAdmin(m) THEN "access-denied"
    ELSE "children"

\* The guard with the authentication test ahead of the loading test.
PrivateRoute_AuthFirst(l, a) ==
    IF a THEN "children"
    ELSE IF l THEN "spinner"
    ELSE "navigate:/access"

PrivateRoute(l, a) ==
    IF l THEN "spinner"
    ELSE IF ~a THEN "navigate:/access"
    ELSE "children"

----------------------------------------------------------------------------
(* The session: the application from a page load on. *)

NoResult == [valid |-> FALSE, message |-> "<none>"]
NoPhoneResult == <<"<none>">>
NotRendered == [guard |-> "none"]
Unmounted == [mounted |-> FALSE]
NotOpened == [mounted |-> FALSE]
\* No answer of the backend is fixed: every request may have every outcome.
AnyAnswer == [fixed |-> FALSE]

\* The components as mounted, before any of their handlers has run.
PagesMounted ==
    /\ rendered = NotRendered
    /\ form = Unmounted
    /\ passPage = NotOpened
    /\ payPage = NotOpened
    /\ rsvpPage = NotOpened
    /\ walk = NotOpened
    /\ backend = AnyAnswer

\* The application as mounted, before the mount effect has run.
Mounted ==
    /\ member = Null
    /\ loading = TRUE
    /\ isAuthenticated = FALSE
    /\ href = NoNav
    /\ phase = "boot"
    /\ inflight = EmptyBag
    /\ micro = Idle
    /\ returned = NoReturn
    /\ email = <<>>
    /\ emailResult = NoResult
    /\ phone = <<>>
    /\ phoneResult = NoPhoneResult
    /\ phoneCheck = NoResult
    /\ PagesMounted

\* A page load finds whatever an earlier visit left (or the browser expired).
Init ==
    /\ cookie \in Tokens \cup {NoCookie}
    /\ storage \in StoredTexts
    /\ Mounted

\* The start of the specifications of the validators, which read no session.
InitForm ==
    /\ cookie = NoCookie
    /\ storage = NoItem
    /\ Mounted

Next ==
    \/ InitializeAuth
    \/ Login
    \/ Logout
    \/ RefreshMember
    \/ PageRequest
    \/ Respond
    \/ ContinueInit
    \/ ContinueLogin
    \/ LogoutServiceSettles
    \/ ContinueLogout
    \/ ContinueRefresh
    \/ ContinuePage
    \/ ContinuePageRsvp
    \/ PageLoad

Spec == Init /\ [][Next]_vars

----------------------------------------------------------------------------
(* utils/validators.js: validateEmail *)

Whitespace == {" "}
EmailChars == {"a", "@", ".", " "}

\* [^\s@]
NotSpaceNorAt(c) == c \notin Whitespace /\ c # "@"

\* The automaton of /^[^\s@]+@[^\s@]+\.[^\s@]+$/: state 0 before the first
\* character, 1 in the part before "@", 2 after "@", 3 in the part before the
\* dot, 4 after the dot, 5 in the part after the dot.
EmailRegexStep(q, c) ==
    CASE q = 0 -> IF NotSpaceNorAt(c) THEN {1} ELSE {}
      [] q = 1 -> IF NotSpaceNorAt(c) THEN {1} ELSE IF c = "@" THEN {2} ELSE {}
      [] q = 2 -> IF NotSpaceNorAt(c) THEN {3} ELSE {}
      [] q = 3 -> IF c = "." THEN {3, 4} ELSE IF NotSpaceNorAt(c) THEN {3} ELSE {}
      [] q = 4 -> IF NotSpaceNorAt(c) THEN {5} ELSE {}
      [] q = 5 -> IF NotSpaceNorAt(c) THEN {5} ELSE {}

RECURSIVE EmailRegexRun(_, _, _)
EmailRegexRun(qs, s, i) ==
    IF i > Len(s) THEN qs
    ELSE EmailRegexRun(UNION {EmailRegexStep(q, s[i]) : q \in qs}, s, i + 1)

\* The test without the closing anchor $.
EmailRegexTest_Unanchored(s) ==
    \E n \in 0..Len(s) : 5 \in EmailRegexRun({0}, SubSeq(s, 1, n), 1)

\* emailRegex.test(email)
EmailRegexTest(s) == 5 \in EmailRegexRun({0}, s, 1)

validateEmail(s) ==
    IF s = <<>>
    THEN [valid |-> FALSE, message |-> "Please provide an email address."]
    ELSE IF ~EmailRegexTest(s)
    THEN [valid |-> FALSE, message |-> "Please provide a valid email address."]
    ELSE [valid |-> TRUE, message |-> ""]

TypeEmail ==
    \E c \in EmailChars :
        /\ Len(email) < MaxEmailLen
        /\ email' = Append(email, c)
        /\ emailResult' = NoResult
        /\ UNCHANGED <<sessionVars, phoneVars, pageVars>>

ValidateEmail ==
    /\ emailResult' = validateEmail(email)
    /\ UNCHANGED <<email, sessionVars, phoneVars, pageVars>>

NextEmail == TypeEmail \/ ValidateEmail

SpecEmail == InitForm /\ [][NextEmail]_vars

----------------------------------------------------------------------------
(* utils/validators.js: formatPhoneNumber *)

Digits == {"0", "1", "2", "3", "4", "5", "6", "7", "8", "9"}
PhoneChars == {"5", "1", "-"}

IsDigit(c) == c \in Digits

\* phone.replace(/\D/g, '')
StripNonDigits(s) == SelectSeq(s, IsDigit)

\* The formatter returning the input only when there are fewer than 10 digits.
formatPhoneNumber_AtLeastTen(s) ==
    LET cleaned == StripNonDigits(s)
    IN IF Len(cleaned) < 10
       THEN s
       ELSE <<"(">> \o SubSeq(cleaned, 1, 3) \o <<")", " ">> \o SubSeq(cleaned, 4, 6)
                \o <<"-">> \o SubSeq(cleaned, 7, Len(cleaned))

\* formatPhoneNumber(phone)
formatPhoneNumber(s) ==
    LET cleaned == StripNonDigits(s)
    IN IF Len(cleaned) # 10
       THEN s
       ELSE <<"(">> \o SubSeq(cleaned, 1, 3) \o <<")", " ">> \o SubSeq(cleaned, 4, 6)
                \o <<"-">> \o SubSeq(cleaned, 7, 10)

NonDigitCount(s) == Cardinality({i \in 1..Len(s) : ~IsDigit(s[i])})

TypePhone ==
    \E c \in PhoneChars :
        /\ Len(phone) < MaxPhoneLen
        /\ IsDigit(c) \/ NonDigitCount(phone) < MaxNonDigits
        /\ phone' = Append(phone, c)
        /\ phoneResult' = NoPhoneResult
        /\ phoneCheck' = NoResult
        /\ UNCHANGED <<sessionVars, emailVars, pageVars>>

FormatPhone ==
    /\ phoneResult' = formatPhoneNumber(phone)
    /\ UNCHANGED <<phone, phoneCheck, sessionVars, emailVars, pageVars>>

NextPhone == TypePhone \/ FormatPhone

SpecPhone == InitForm /\ [][NextPhone]_vars

----------------------------------------------------------------------------
(* utils/validators.js: validatePhone *)

\* The validator accepting exactly 10 digits.
validatePhone_ExactlyTen(s) ==
    IF s = <<>>
    THEN [valid |-> FALSE, message |-> "Please provide a phone number."]
    ELSE IF Len(StripNonDigits(s)) # 10
    THEN [valid |-> FALSE, message |-> "Phone number must be at least 10 digits."]
    ELSE [valid |-> TRUE, message |-> ""]

\* validatePhone(phone)
validatePhone(s) ==
    IF s = <<>>
    THEN [valid |-> FALSE, message |-> "Please provide a phone number."]
    ELSE IF Len(StripNonDigits(s)) < 10
    THEN [valid |-> FALSE, message |-> "Phone number must be at least 10 digits."]
    ELSE [valid |-> TRUE, message |-> ""]

ValidatePhone ==
    /\ phoneCheck' = validatePhone(phone)
    /\ UNCHANGED <<phone, phoneResult, sessionVars, emailVars, pageVars>>

NextPhoneCheck == TypePhone \/ ValidatePhone

SpecPhoneCheck == InitForm /\ [][NextPhoneCheck]_vars

----------------------------------------------------------------------------
(* The route guards on their own: every value useAuth() can hand to them. *)

\* The member values a guard can be handed: the profiles of the session, null,
\* and profiles with both admin marks, with one field only and with none.
GuardMembers ==
    Members \cup
    { Null,
      MemberObj("admin", StaffEmail),
      MemberObj("admin", LookalikeEmail),
      [t |-> "object", email |-> StaffEmail],
      [t |-> "object"] }

InitGuard ==
    /\ cookie = NoCookie
    /\ storage = NoItem
    /\ member \in GuardMembers
    /\ loading \in BOOLEAN
    /\ isAuthenticated \in BOOLEAN
    /\ href = NoNav
    /\ phase = "ready"
    /\ inflight = EmptyBag
    /\ micro = Idle
    /\ returned = NoReturn
    /\ email = <<>>
    /\ emailResult = NoResult
    /\ phone = <<>>
    /\ phoneResult = NoPhoneResult
    /\ phoneCheck = NoResult
    /\ PagesMounted

\* A member route renders: PrivateRoute reads loading and isAuthenticated.
RenderPrivate ==
    /\ rendered' = [guard |-> "private", out |-> PrivateRoute(loading, isAuthenticated)]
    /\ UNCHANGED <<sessionVars, emailVars, phoneVars, form, passPage, flowVars>>

\* An admin route renders: AdminRoute reads loading, isAuthenticated and member.
RenderAdmin ==
    /\ rendered' = [guard |-> "admin", out |-> AdminRoute(loading, isAuthenticated, member)]
    /\ UNCHANGED <<sessionVars, emailVars, phoneVars, form, passPage, flowVars>>

NextGuard == RenderPrivate \/ RenderAdmin

SpecGuard == InitGuard /\ [][NextGuard]_vars

----------------------------------------------------------------------------
(* components/auth/EmailAccessForm: the access form and the login it starts. *)

\* The values the email input is given: nothing, a well-shaped address, an
\* address without a domain, one whose domain has no dot (which the browser's
\* own check of an email input lets through), and a blank.
FormEmails ==
    { <<>>,
      <<"a", "@", "a", ".", "a">>,
      <<"a", "@">>,
      <<"a", "@", "a">>,
      <<" ">> }

\* useState(''), useState(''), useState(false)
FreshForm == [mounted |-> TRUE, error |-> Str(""), loading |-> FALSE]

\* The login call of the form instance that is mounted, and the one of an
\* instance that has been unmounted since.
FormCall == [op |-> "login", by |-> "mounted"]
StaleCall == [op |-> "login", by |-> "unmounted"]

\* The calls in flight once the mounted instance has unmounted: its call is
\* now the call of an unmounted instance.
Orphaned(calls) ==
    LET n == CopiesIn(FormCall, calls)
    IN IF n = 0
       THEN calls
       ELSE (calls (-) [c \in {FormCall} |-> n]) (+) [c \in {StaleCall} |-> n]

\* The submit button disabled only while the email is empty.
SubmitDisabled_EmptyOnly(f, e) == e = <<>>

\* disabled={loading || !email}
SubmitDisabled(f, e) == f.loading \/ e = <<>>

\* The route /access is entered: a new instance of the form mounts.
MountForm ==
    /\ micro = Idle
    /\ ~form.mounted
    /\ form' = FreshForm
    /\ email' = <<>>
    /\ returned' = NoReturn
    /\ UNCHANGED <<cookie, storage, member, loading, isAuthenticated, href, phase,
                   inflight, micro, emailResult, phoneVars, rendered, passPage, flowVars>>

\* The route /access is left: the instance unmounts, its call stays in flight.
UnmountForm ==
    /\ micro = Idle
    /\ form.mounted
    /\ form' = Unmounted
    /\ inflight' = Orphaned(inflight)
    /\ returned' = NoReturn
    /\ UNCHANGED <<cookie, storage, member, loading, isAuthenticated, href, phase,
                   micro, emailVars, phoneVars, rendered, passPage, flowVars>>

\* onChange of the input, which is disabled while the form is loading.
ChangeEmail ==
    \E v \in FormEmails :
        /\ micro = Idle
        /\ form.mounted
        /\ ~form.loading
        /\ email' = v
        /\ returned' = NoReturn
        /\ UNCHANGED <<cookie, storage, member, loading, isAuthenticated, href, phase,
                       inflight, micro, emailResult, phoneVars, pageVars>>

\* A handler that goes on to login whatever validateEmail returned.
PassesValidation_Always(validation) == TRUE

\* if (!validation.valid) { setError(validation.message); return; }
PassesValidation(validation) == validation.valid

\* handleSubmit up to its await: the submit event needs the enabled button; an
\* invalid email ends the handler, a valid one starts login(email), which runs
\* to its own await.
SubmitForm ==
    /\ micro = Idle
    /\ phase = "ready"
    /\ form.mounted
    /\ ~SubmitDisabled(form, email)
    /\ LET validation == validateEmail(email)
       IN IF ~PassesValidation(validation)
          THEN /\ form' = [form EXCEPT !.error = Str(validation.message)]
               /\ UNCHANGED <<loading, inflight>>
          ELSE /\ CanSend
               /\ form' = [form EXCEPT !.error = Str(""), !.loading = TRUE]
               /\ loading' = TRUE
               /\ inflight' = inflight (+) SetToBag({FormCall})
    /\ returned' = NoReturn
    /\ UNCHANGED <<cookie, storage, member, isAuthenticated, href, phase, micro,
                   emailVars, phoneVars, rendered, passPage, flowVars>>

\* handleSubmit after its await: login has resolved to returned.value. The
\* state setters of an unmounted instance change nothing; navigate leaves the
\* route /access, so the form unmounts.
ResumeSubmit ==
    /\ micro # Idle
    /\ micro.t = "resumed"
    /\ IF returned.value.success
       THEN form' = Unmounted
       ELSE IF micro.call = FormCall
       THEN form' = [form EXCEPT
                        !.error = Or(returned.value.error,
                                     Str("This invitation is reserved for selected members.")),
                        !.loading = FALSE]
       ELSE UNCHANGED form
    /\ inflight' = IF returned.value.success THEN Orphaned(inflight) ELSE inflight
    /\ micro' = Idle
    /\ returned' = NoReturn
    /\ UNCHANGED <<cookie, storage, member, loading, isAuthenticated, href, phase,
                   emailVars, phoneVars, rendered, passPage, flowVars>>

NextForm ==
    \/ InitializeAuth
    \/ MountForm
    \/ UnmountForm
    \/ ChangeEmail
    \/ SubmitForm
    \/ Respond
    \/ ContinueLogin
    \/ ResumeSubmit

SpecForm == InitForm /\ [][NextForm]_vars

----------------------------------------------------------------------------
(* PassAccessPage: the full Legacy Pass behind the payment check. *)

PassRoute == "/pass/:token"

\* useState(true), useState(null) for pass, event and paymentStatus.
OpenedPassPage ==
    [mounted |-> TRUE, loading |-> TRUE, paymentStatus |-> Null, pass |-> Null,
     event |-> Null, location |-> PassRoute]

\* error.status of what the page's catch block receives.
ErrorStatus(e) == IF "status" \in DOMAIN e THEN e.status ELSE -1

\* The catch and finally blocks of fetchFullPass.
PassCatch(p, e) ==
    [p EXCEPT !.location = IF ErrorStatus(e) = 402 THEN "/legacy-pass" ELSE @,
              !.loading = FALSE]

\* The render branches of the page.
PassPageView(p) ==
    IF ~p.mounted \/ p.location # PassRoute THEN "none"
    ELSE IF p.loading THEN "spinner"
    ELSE IF p.pass = Null THEN "not-found"
    ELSE "full-pass"

\* fetchFullPass asking for the full pass whatever the payment status is.
AfterPaymentStatus_SkipsCheck(p, r) ==
    IF ~r.ok THEN [page |-> PassCatch(p, r.error), send |-> FALSE]
    ELSE IF r.response.data = Null
    THEN [page |-> PassCatch(p, TypeErrorNullDetail), send |-> FALSE]
    ELSE [page |-> [p EXCEPT !.paymentStatus =
                        IF "status" \in DOMAIN r.response.data
                        THEN r.response.data.status ELSE Undefined],
          send |-> TRUE]

\* fetchFullPass after its first await: what the page becomes and whether the
\* request for the full pass is sent.
AfterPaymentStatus(p, r) ==
    IF ~r.ok THEN [page |-> PassCatch(p, r.error), send |-> FALSE]
    ELSE IF r.response.data = Null
    THEN [page |-> PassCatch(p, TypeErrorNullDetail), send |-> FALSE]
    ELSE LET status == IF "status" \in DOMAIN r.response.data
                       THEN r.response.data.status ELSE Undefined
         IN IF status # Str("verified")
            THEN [page |-> [p EXCEPT !.paymentStatus = status,
                                     !.location = "/legacy-pass",
                                     !.loading = FALSE],
                  send |-> FALSE]
            ELSE [page |-> [p EXCEPT !.paymentStatus = status], send |-> TRUE]

\* The route /pass/:token is entered behind the member guard: the page mounts
\* and its effect runs fetchFullPass to its first await.
OpenPassPage ==
    /\ micro = Idle
    /\ phase = "ready"
    /\ PrivateRoute(loading, isAuthenticated) = "children"
    /\ ~passPage.mounted
    /\ CanSend
    /\ passPage' = OpenedPassPage
    /\ inflight' = Send("paymentStatus")
    /\ returned' = NoReturn
    /\ UNCHANGED <<cookie, storage, member, loading, isAuthenticated, href, phase,
                   micro, emailVars, phoneVars, rendered, form, flowVars>>

ContinuePaymentStatus ==
    /\ micro # Idle
    /\ micro.call.op = "paymentStatus"
    /\ LET after == AfterPaymentStatus(passPage, micro.result)
       IN /\ passPage' = after.page
          /\ inflight' = IF after.send THEN Send("fullPass") ELSE inflight
    /\ returned' = [op |-> "paymentStatus", threw |-> FALSE, outcome |-> micro.outcome]
    /\ micro' = Idle
    /\ UNCHANGED <<cookie, storage, member, loading, isAuthenticated, href, phase,
                   emailVars, phoneVars, rendered, form, flowVars>>

\* fetchFullPass after its second await.
ContinueFullPass ==
    /\ micro # Idle
    /\ micro.call.op = "fullPass"
    /\ IF micro.result.ok
       THEN /\ passPage' = [passPage EXCEPT !.pass = micro.result.response.data]
            /\ inflight' = Send("passEvent")
       ELSE /\ passPage' = PassCatch(passPage, micro.result.error)
            /\ UNCHANGED inflight
    /\ returned' = [op |-> "fullPass", threw |-> FALSE, outcome |-> micro.outcome]
    /\ micro' = Idle
    /\ UNCHANGED <<cookie, storage, member, loading, isAuthenticated, href, phase,
                   emailVars, phoneVars, rendered, form, flowVars>>

\* fetchFullPass after its third await. The repository holds two tables of
\* API_ENDPOINTS: the one of utils/constants.js has no LEGACY_PASS.BENEFITS, so
\* building the fourth request throws a TypeError, which the catch block
\* receives; the one at the end of utils/helpers.js has it, and the request for
\* the benefits is sent.
ContinuePassEvent ==
    /\ micro # Idle
    /\ micro.call.op = "passEvent"
    /\ IF micro.result.ok
       THEN \/ /\ passPage' = PassCatch([passPage EXCEPT
                                             !.event = micro.result.response.data],
                                         [name |-> "TypeError"])
               /\ UNCHANGED inflight
            \/ /\ passPage' = [passPage EXCEPT !.event = micro.result.response.data]
               /\ inflight' = Send("passBenefits")
       ELSE /\ passPage' = PassCatch(passPage, micro.result.error)
            /\ UNCHANGED inflight
    /\ returned' = [op |-> "passEvent", threw |-> FALSE, outcome |-> micro.outcome]
    /\ micro' = Idle
    /\ UNCHANGED <<cookie, storage, member, loading, isAuthenticated, href, phase,
                   emailVars, phoneVars, rendered, form, flowVars>>

\* fetchFullPass after its fourth await: setBenefits, then the finally block.
\* The benefits are not part of the page state of this model.
ContinuePassBenefits ==
    /\ micro # Idle
    /\ micro.call.op = "passBenefits"
    /\ IF micro.result.ok
       THEN passPage' = [passPage EXCEPT !.loading = FALSE]
       ELSE passPage' = PassCatch(passPage, micro.result.error)
    /\ returned' = [op |-> "passBenefits", threw |-> FALSE, outcome |-> micro.outcome]
    /\ micro' = Idle
    /\ UNCHANGED <<cookie, storage, member, loading, isAuthenticated, href, phase,
                   inflight, emailVars, phoneVars, rendered, form, flowVars>>

\* A member with a persisted session opens the application.
InitPass ==
    /\ cookie = "token-1"
    /\ storage \in {JSONstringify(m) : m \in Members}
    /\ Mounted

NextPass ==
    \/ InitializeAuth
    \/ OpenPassPage
    \/ Respond
    \/ ContinuePaymentStatus
    \/ ContinueFullPass
    \/ ContinuePassEvent
    \/ ContinuePassBenefits

SpecPass == InitPass /\ [][NextPass]_vars

----------------------------------------------------------------------------
(* PaymentVerification: the admin list of payments, its filter and the verify
   modal. MembersList.fetchMembers and RSVPManagement.fetchData start, settle
   and display their list the same way. The endpoints PAYMENT.PENDING,
   PAYMENT.ALL and PAYMENT.VERIFY are those of the table of API_ENDPOINTS at
   the end of utils/helpers.js. *)

PaymentFilters == {"pending", "verified", "all"}
PaymentIds == {1, 2}

\* useState([]): no response has been displayed yet.
NoList == [for |-> "none"]

\* useState(true), useState([]), useState('pending'), useState(null),
\* useState(false), useState(false).
OpenedPaymentsPage ==
    [mounted |-> TRUE, loading |-> TRUE, payments |-> NoList, filter |-> "pending",
     selectedPayment |-> Null, verifying |-> FALSE, showVerifyModal |-> FALSE]

\* The page returns the full-screen spinner while loading, and the verify modal
\* covers the page while it is open, so the filter buttons and the Verify
\* buttons of the list can be pressed only when neither holds.
PaymentControlsOffered(p) == p.mounted /\ ~p.loading /\ ~p.showVerifyModal

\* The modal is rendered by the return statement that follows the spinner.
VerifyModalShown(p) == p.mounted /\ ~p.loading /\ p.showVerifyModal

\* A modal whose close handler and Cancel button do not look at verifying.
ModalCanClose_Always(p) == TRUE

\* onClose={() => !verifying && setShowVerifyModal(false)} and the Cancel
\* button's disabled={verifying}.
ModalCanClose(p) == ~p.verifying

\* The request fetchPayments sends for a filter; after tells what awaits it.
FetchCall(f, after) == [op |-> "payments", filter |-> f, after |-> after]

\* The POST of confirmVerify, and the filter its closure of fetchPayments holds.
VerifyCall(id, f) == [op |-> "verify", payment_id |-> id, filter |-> f]

\* The session of a member of ms after initializeAuth has completed.
SignedIn(ms) ==
    /\ cookie = "token-1"
    /\ member \in ms
    /\ storage = JSONstringify(member)
    /\ loading = FALSE
    /\ isAuthenticated = TRUE
    /\ href = NoNav
    /\ phase = "ready"
    /\ inflight = EmptyBag
    /\ micro = Idle
    /\ returned = NoReturn
    /\ email = <<>>
    /\ emailResult = NoResult
    /\ phone = <<>>
    /\ phoneResult = NoPhoneResult
    /\ phoneCheck = NoPhoneResult

\* An administrator whose session is established enters /admin/payments.
InitPayments ==
    /\ SignedIn({m \in Members : IsAdmin(m)})
    /\ PagesMounted

\* The page mounts behind the admin guard; its effect runs fetchPayments to
\* its await.
OpenPaymentsPage ==
    /\ micro = Idle
    /\ AdminRoute(loading, isAuthenticated, member) = "children"
    /\ ~payPage.mounted
    /\ CanSend
    /\ payPage' = OpenedPaymentsPage
    /\ inflight' = inflight (+) SetToBag({FetchCall("pending", "effect")})
    /\ returned' = NoReturn
    /\ UNCHANGED <<cookie, storage, member, loading, isAuthenticated, href, phase,
                   micro, emailVars, phoneVars, rendered, form, passPage,
                   rsvpPage, walk, backend>>

\* A filter button: setFilter(f); the effect on [filter] runs fetchPayments,
\* which sets loading and sends the request for f.
ChangeFilter ==
    \E f \in PaymentFilters :
        /\ micro = Idle
        /\ PaymentControlsOffered(payPage)
        /\ f # payPage.filter
        /\ CanSend
        /\ payPage' = [payPage EXCEPT !.filter = f, !.loading = TRUE]
        /\ inflight' = inflight (+) SetToBag({FetchCall(f, "effect")})
        /\ returned' = NoReturn
        /\ UNCHANGED <<cookie, storage, member, loading, isAuthenticated, href,
                       phase, micro, emailVars, phoneVars, rendered, form,
                       passPage, rsvpPage, walk, backend>>

\* fetchPayments after its await: setPayments(response.data), or the catch
\* block that only logs; then the finally block. When confirmVerify awaited it,
\* confirmVerify goes on: it closes the modal, clears the selection and, in its
\* own finally block, resets verifying.
ContinueFetchPayments ==
    /\ micro # Idle
    /\ micro.call.op = "payments"
    /\ LET shown == IF micro.result.ok
                    THEN [payPage EXCEPT !.payments = [for |-> micro.call.filter],
                                         !.loading = FALSE]
                    ELSE [payPage EXCEPT !.loading = FALSE]
       IN payPage' = IF micro.call.after = "verify"
                     THEN [shown EXCEPT !.showVerifyModal = FALSE,
                                        !.selectedPayment = Null,
                                        !.verifying = FALSE]
                     ELSE shown
    /\ returned' = [op |-> "payments", threw |-> FALSE, outcome |-> micro.outcome]
    /\ micro' = Idle
    /\ UNCHANGED <<cookie, storage, member, loading, isAuthenticated, href, phase,
                   inflight, emailVars, phoneVars, rendered, form, passPage,
                   rsvpPage, walk, backend>>

\* handleVerifyClick(payment), offered for the pending payments of the list.
VerifyClick ==
    \E id \in PaymentIds :
        /\ micro = Idle
        /\ PaymentControlsOffered(payPage)
        /\ payPage.payments.for \in {"pending", "all"}
        /\ payPage' = [payPage EXCEPT !.selectedPayment = id,
                                      !.showVerifyModal = TRUE]
        /\ returned' = NoReturn
        /\ UNCHANGED <<sessionVarsButReturned, emailVars, phoneVars, rendered,
                       form, passPage, rsvpPage, walk, backend>>

\* The close handler of the modal (Escape, overlay, close button) and Cancel.
CloseVerifyModal ==
    /\ micro = Idle
    /\ VerifyModalShown(payPage)
    /\ ModalCanClose(payPage)
    /\ payPage' = [payPage EXCEPT !.showVerifyModal = FALSE]
    /\ returned' = NoReturn
    /\ UNCHANGED <<sessionVarsButReturned, emailVars, phoneVars, rendered,
                   form, passPage, rsvpPage, walk, backend>>

\* confirmVerify to its first await; the Confirm button is disabled while
\* verifying.
ConfirmVerify ==
    /\ micro = Idle
    /\ VerifyModalShown(payPage)
    /\ ~payPage.verifying
    /\ CanSend
    /\ payPage' = [payPage EXCEPT !.verifying = TRUE]
    /\ inflight' = inflight (+)
                       SetToBag({VerifyCall(payPage.selectedPayment, payPage.filter)})
    /\ returned' = NoReturn
    /\ UNCHANGED <<cookie, storage, member, loading, isAuthenticated, href, phase,
                   micro, emailVars, phoneVars, rendered, form, passPage,
                   rsvpPage, walk, backend>>

\* confirmVerify after its POST: on success it awaits fetchPayments(), which
\* sets loading and sends the request for the filter of its closure; on
\* failure the catch block alerts and the finally block resets verifying.
ContinueVerify ==
    /\ micro # Idle
    /\ micro.call.op = "verify"
    /\ IF micro.result.ok
       THEN /\ payPage' = [payPage EXCEPT !.loading = TRUE]
            /\ inflight' = inflight (+)
                               SetToBag({FetchCall(micro.call.filter, "verify")})
       ELSE /\ payPage' = [payPage EXCEPT !.verifying = FALSE]
            /\ UNCHANGED inflight
    /\ returned' = [op |-> "verify", threw |-> FALSE, outcome |-> micro.outcome]
    /\ micro' = Idle
    /\ UNCHANGED <<cookie, storage, member, loading, isAuthenticated, href, phase,
                   emailVars, phoneVars, rendered, form, passPage,
                   rsvpPage, walk, backend>>

NextPayments ==
    \/ OpenPaymentsPage
    \/ ChangeFilter
    \/ VerifyClick
    \/ CloseVerifyModal
    \/ ConfirmVerify
    \/ Respond
    \/ ContinueFetchPayments
    \/ ContinueVerify

SpecPayments == InitPayments /\ [][NextPayments]_vars

----------------------------------------------------------------------------
(* RSVPPage and its RSVPButtons. *)

\* useState(true), useState(false), useState(null) for event and rsvpStatus;
\* RSVPButtons: both modals closed. succeeded records that a submission of
\* this instance has been answered with a 2xx.
OpenedRsvpPage ==
    [mounted |-> TRUE, loading |-> TRUE, submitting |-> FALSE, event |-> Null,
     rsvpStatus |-> Null, modal |-> "none", succeeded |-> FALSE]

\* A page that renders RSVPButtons whatever rsvpStatus is.
RsvpControlsOffered_IgnoresStatus(p) ==
    p.mounted /\ ~p.loading /\ p.event # Null

\* The render branches: spinner while loading, "No Event Found" without an
\* event, and RSVPButtons only under !rsvpStatus.
RsvpControlsOffered(p) ==
    p.mounted /\ ~p.loading /\ p.event # Null /\ ~Truthy(p.rsvpStatus)

\* event.id
EventId(e) == IF "id" \in DOMAIN e THEN e.id ELSE Undefined

\* The page mounts behind the member guard; fetchData runs to its first await.
OpenRsvpPage ==
    /\ micro = Idle
    /\ PrivateRoute(loading, isAuthenticated) = "children"
    /\ ~rsvpPage.mounted
    /\ CanSend
    /\ rsvpPage' = OpenedRsvpPage
    /\ inflight' = Send("rsvpEvent")
    /\ returned' = NoReturn
    /\ UNCHANGED <<cookie, storage, member, loading, isAuthenticated, href, phase,
                   micro, emailVars, phoneVars, rendered, form, passPage,
                   payPage, walk, backend>>

\* fetchData after its first await: setEvent and the request for the RSVP, or
\* the outer catch and the finally block.
ContinueRsvpEvent ==
    /\ micro # Idle
    /\ micro.call.op = "rsvpEvent"
    /\ IF micro.result.ok
       THEN /\ rsvpPage' = [rsvpPage EXCEPT !.event = micro.result.response.data]
            /\ inflight' = Send("rsvpMe")
       ELSE /\ rsvpPage' = [rsvpPage EXCEPT !.loading = FALSE]
            /\ UNCHANGED inflight
    /\ returned' = [op |-> "rsvpEvent", threw |-> FALSE, outcome |-> micro.outcome]
    /\ micro' = Idle
    /\ UNCHANGED <<cookie, storage, member, loading, isAuthenticated, href, phase,
                   emailVars, phoneVars, rendered, form, passPage,
                   payPage, walk, backend>>

\* fetchData after its second await: setRsvpStatus(rsvpResponse.data.status);
\* the inner catch swallows a failure and the TypeError of a null body.
ContinueRsvpMe ==
    /\ micro # Idle
    /\ micro.call.op = "rsvpMe"
    /\ micro.call = [op |-> "rsvpMe"]
    /\ rsvpPage' =
          IF micro.result.ok /\ micro.result.response.data # Null
          THEN [rsvpPage EXCEPT
                   !.rsvpStatus = IF "status" \in DOMAIN micro.result.response.data
                                  THEN micro.result.response.data.status
                                  ELSE Undefined,
                   !.loading = FALSE]
          ELSE [rsvpPage EXCEPT !.loading = FALSE]
    /\ returned' = [op |-> "rsvpMe", threw |-> FALSE, outcome |-> micro.outcome]
    /\ micro' = Idle
    /\ UNCHANGED <<cookie, storage, member, loading, isAuthenticated, href, phase,
                   inflight, emailVars, phoneVars, rendered, form, passPage,
                   payPage, walk, backend>>

\* handleAcceptClick / handleDeclineClick: the two buttons are disabled while
\* submitting, and an open modal covers them.
ClickRsvp ==
    \E answer \in {"accepted", "declined"} :
        /\ micro = Idle
        /\ RsvpControlsOffered(rsvpPage)
        /\ ~rsvpPage.submitting
        /\ rsvpPage.modal = "none"
        /\ rsvpPage' = [rsvpPage EXCEPT !.modal = answer]
        /\ returned' = NoReturn
        /\ UNCHANGED <<sessionVarsButReturned, emailVars, phoneVars, rendered,
                       form, passPage, payPage, walk, backend>>

\* The close handler of the open modal and its Go Back button.
CloseRsvpModal ==
    /\ micro = Idle
    /\ RsvpControlsOffered(rsvpPage)
    /\ rsvpPage.modal # "none"
    /\ rsvpPage' = [rsvpPage EXCEPT !.modal = "none"]
    /\ returned' = NoReturn
    /\ UNCHANGED <<sessionVarsButReturned, emailVars, phoneVars, rendered,
                   form, passPage, payPage, walk, backend>>

\* confirmAccept / confirmDecline: the modal closes and handleAccept or
\* handleDecline runs to its await; without an event id it alerts and returns.
\* The confirm button is disabled while submitting.
ConfirmRsvp ==
    /\ micro = Idle
    /\ RsvpControlsOffered(rsvpPage)
    /\ rsvpPage.modal # "none"
    /\ ~rsvpPage.submitting
    /\ IF Truthy(EventId(rsvpPage.event))
       THEN /\ CanSend
            /\ rsvpPage' = [rsvpPage EXCEPT !.modal = "none", !.submitting = TRUE]
            /\ inflight' = inflight (+)
                   SetToBag({[op |-> "rsvpSubmit", status |-> rsvpPage.modal]})
       ELSE /\ rsvpPage' = [rsvpPage EXCEPT !.modal = "none"]
            /\ UNCHANGED inflight
    /\ returned' = NoReturn
    /\ UNCHANGED <<cookie, storage, member, loading, isAuthenticated, href, phase,
                   micro, emailVars, phoneVars, rendered, form, passPage,
                   payPage, walk, backend>>

\* handleAccept / handleDecline after the POST: setRsvpStatus on a 2xx, an
\* alert otherwise; the finally block resets submitting.
ContinueRsvpSubmit ==
    /\ micro # Idle
    /\ micro.call.op = "rsvpSubmit"
    /\ rsvpPage' =
          IF micro.result.ok
          THEN [rsvpPage EXCEPT !.rsvpStatus = Str(micro.call.status),
                                !.succeeded = TRUE,
                                !.submitting = FALSE]
          ELSE [rsvpPage EXCEPT !.submitting = FALSE]
    /\ returned' = [op |-> "rsvpSubmit", threw |-> FALSE, outcome |-> micro.outcome]
    /\ micro' = Idle
    /\ UNCHANGED <<cookie, storage, member, loading, isAuthenticated, href, phase,
                   inflight, emailVars, phoneVars, rendered, form, passPage,
                   payPage, walk, backend>>

\* A member whose session is established enters /rsvp.
InitRsvp ==
    /\ SignedIn(Members)
    /\ PagesMounted

NextRsvp ==
    \/ OpenRsvpPage
    \/ ClickRsvp
    \/ CloseRsvpModal
    \/ ConfirmRsvp
    \/ Respond
    \/ ContinueRsvpEvent
    \/ ContinueRsvpMe
    \/ ContinueRsvpSubmit

SpecRsvp == InitRsvp /\ [][NextRsvp]_vars

----------------------------------------------------------------------------
(* The automatic redirects among /payment, /legacy-pass, /pass/:token and
   /rsvp, against a backend whose answers to GET /api/rsvp/me and to
   GET /api/payment/status/:token do not change. *)

MemberPages == {"/payment", "/legacy-pass", PassRoute, "/rsvp"}

\* The route has been entered and its page has not mounted yet.
NoPage == [name |-> "none"]

\* The member enters the application at loc.
EnteredAt(loc) ==
    [mounted |-> TRUE, at |-> loc, page |-> NoPage,
     redirectedTo |-> [p \in MemberPages |-> 0]]

\* navigate(target): the router leaves the page for target.
Navigate(w, target) ==
    [w EXCEPT !.at = target, !.page = NoPage, !.redirectedTo[target] = @ + 1]

Within(w, target) == w.redirectedTo[target] < MaxRedirects

\* data.has_rsvp, data.rsvp_status === 'accepted', data.legacy_pass_token
HasRsvp(data) == "has_rsvp" \in DOMAIN data /\ data.has_rsvp
Accepted(data) ==
    "rsvp_status" \in DOMAIN data /\ data.rsvp_status = Str("accepted")
PassToken(data) ==
    IF "legacy_pass_token" \in DOMAIN data THEN data.legacy_pass_token ELSE Undefined

\* paymentResponse.data.status === 'verified'
Verified(data) == "status" \in DOMAIN data /\ data.status = Str("verified")

\* The endpoint whose answer is fixed, for the calls that go to one.
Endpoint(op) ==
    CASE op \in {"checkRsvp", "legacyRsvp"} -> "rsvp"
      [] op \in {"checkStatus", "legacyStatus", "paymentStatus"} -> "status"
      [] OTHER -> "other"

\* The answers an endpoint may be fixed to: every 2xx body, an error response of
\* each status, and no response at all.
FixedAnswers(op) ==
    Successes(op)
    \cup {o \in HttpErrors \cup PaymentRequired(op) : o.data = [t |-> "object"]}
    \cup {NoResponse}

\* Respond, with the answers of the two endpoints as the backend fixes them.
RespondFixed ==
    /\ Respond
    /\ (backend.fixed /\ Endpoint(micro'.call.op) # "other") =>
          micro'.outcome = backend[Endpoint(micro'.call.op)]

\* PaymentPage: useState(true), useState(null).
OpenedPaymentPage == [name |-> "payment", loading |-> TRUE, rsvp |-> Null]

\* The page mounts behind the member guard; checkAccess runs to its first await.
MountPaymentPage ==
    /\ micro = Idle
    /\ href = NoNav
    /\ PrivateRoute(loading, isAuthenticated) = "children"
    /\ walk.mounted
    /\ walk.at = "/payment"
    /\ walk.page = NoPage
    /\ CanSend
    /\ walk' = [walk EXCEPT !.page = OpenedPaymentPage]
    /\ inflight' = Send("checkRsvp")
    /\ returned' = NoReturn
    /\ UNCHANGED <<cookie, storage, member, loading, isAuthenticated, href, phase,
                   micro, emailVars, phoneVars, rendered, form, passPage,
                   payPage, rsvpPage, backend>>

\* checkAccess after its first await: where it navigates to, or "go on".
AfterCheckRsvp(r) ==
    IF ~r.ok THEN "/rsvp"
    ELSE IF r.response.data = Null THEN "/rsvp"
    ELSE IF ~HasRsvp(r.response.data) \/ ~Accepted(r.response.data) THEN "/rsvp"
    ELSE IF ~Truthy(PassToken(r.response.data)) THEN "/rsvp"
    ELSE "go on"

ContinueCheckRsvp ==
    /\ micro # Idle
    /\ micro.call.op = "checkRsvp"
    /\ LET to == AfterCheckRsvp(micro.result)
       IN IF to = "go on"
          THEN /\ walk' = [walk EXCEPT !.page.rsvp = micro.result.response.data]
               /\ inflight' = Send("checkStatus")
          ELSE /\ Within(walk, to)
               /\ walk' = Navigate(walk, to)
               /\ UNCHANGED inflight
    /\ returned' = [op |-> "checkRsvp", threw |-> FALSE, outcome |-> micro.outcome]
    /\ micro' = Idle
    /\ UNCHANGED <<cookie, storage, member, loading, isAuthenticated, href, phase,
                   emailVars, phoneVars, rendered, form, passPage,
                   payPage, rsvpPage, backend>>

\* checkAccess after its second await: a verified payment leads to the full
\* pass; the inner catch swallows every failure; then the finally block.
ContinueCheckStatus ==
    /\ micro # Idle
    /\ micro.call.op = "checkStatus"
    /\ IF micro.result.ok /\ micro.result.response.data # Null
          /\ Verified(micro.result.response.data)
       THEN /\ Within(walk, PassRoute)
            /\ walk' = Navigate(walk, PassRoute)
       ELSE walk' = [walk EXCEPT !.page.loading = FALSE]
    /\ returned' = [op |-> "checkStatus", threw |-> FALSE, outcome |-> micro.outcome]
    /\ micro' = Idle
    /\ UNCHANGED <<cookie, storage, member, loading, isAuthenticated, href, phase,
                   inflight, emailVars, phoneVars, rendered, form, passPage,
                   payPage, rsvpPage, backend>>

\* LegacyPassPage: useState(true), useState(null) for error, rsvp and
\* paymentStatus.
OpenedLegacyPassPage ==
    [name |-> "legacy-pass", loading |-> TRUE, error |-> Null, rsvp |-> Null,
     paymentStatus |-> Null]

\* The render branches of LegacyPassPage.
LegacyPassView(p) ==
    IF p.loading THEN "spinner"
    ELSE IF p.error = Str("not_accepted") \/ p.rsvp = Null \/ ~Accepted(p.rsvp)
    THEN "rsvp-required"
    ELSE IF p.error = Str("no_token") THEN "being-generated"
    ELSE IF p.paymentStatus = Str("verified") THEN "navigate"
    ELSE "preview"

MountLegacyPassPage ==
    /\ micro = Idle
    /\ href = NoNav
    /\ PrivateRoute(loading, isAuthenticated) = "children"
    /\ walk.mounted
    /\ walk.at = "/legacy-pass"
    /\ walk.page = NoPage
    /\ CanSend
    /\ walk' = [walk EXCEPT !.page = OpenedLegacyPassPage]
    /\ inflight' = Send("legacyRsvp")
    /\ returned' = NoReturn
    /\ UNCHANGED <<cookie, storage, member, loading, isAuthenticated, href, phase,
                   micro, emailVars, phoneVars, rendered, form, passPage,
                   payPage, rsvpPage, backend>>

\* fetchPassData after its first await.
ContinueLegacyRsvp ==
    /\ micro # Idle
    /\ micro.call.op = "legacyRsvp"
    /\ LET r == micro.result
           failed(e) == [walk EXCEPT !.page.error = Str(e), !.page.loading = FALSE]
       IN IF ~r.ok \/ r.response.data = Null
          THEN /\ walk' = failed("fetch_failed")
               /\ UNCHANGED inflight
          ELSE IF ~HasRsvp(r.response.data) \/ ~Accepted(r.response.data)
          THEN /\ walk' = failed("not_accepted")
               /\ UNCHANGED inflight
          ELSE IF ~Truthy(PassToken(r.response.data))
          THEN /\ walk' = [failed("no_token") EXCEPT !.page.rsvp = r.response.data]
               /\ UNCHANGED inflight
          ELSE /\ walk' = [walk EXCEPT !.page.rsvp = r.response.data]
               /\ inflight' = Send("legacyPreview")
    /\ returned' = [op |-> "legacyRsvp", threw |-> FALSE, outcome |-> micro.outcome]
    /\ micro' = Idle
    /\ UNCHANGED <<cookie, storage, member, loading, isAuthenticated, href, phase,
                   emailVars, phoneVars, rendered, form, passPage,
                   payPage, rsvpPage, backend>>

\* fetchPassData after the preview: its own catch sets 'preview_failed'; the
\* request for the payment status follows either way.
ContinueLegacyPreview ==
    /\ micro # Idle
    /\ micro.call.op = "legacyPreview"
    /\ walk' = IF micro.result.ok THEN walk
               ELSE [walk EXCEPT !.page.error = Str("preview_failed")]
    /\ inflight' = Send("legacyStatus")
    /\ returned' = [op |-> "legacyPreview", threw |-> FALSE, outcome |-> micro.outcome]
    /\ micro' = Idle
    /\ UNCHANGED <<cookie, storage, member, loading, isAuthenticated, href, phase,
                   emailVars, phoneVars, rendered, form, passPage,
                   payPage, rsvpPage, backend>>

\* fetchPassData after the payment status: a failure counts as 'pending'; the
\* finally block ends loading, and the render that follows navigates to the
\* full pass when the status is 'verified'.
ContinueLegacyStatus ==
    /\ micro # Idle
    /\ micro.call.op = "legacyStatus"
    /\ LET status == IF micro.result.ok /\ micro.result.response.data # Null
                     THEN IF "status" \in DOMAIN micro.result.response.data
                          THEN micro.result.response.data.status
                          ELSE Undefined
                     ELSE Str("pending")
           shown == [walk EXCEPT !.page.paymentStatus = status,
                                 !.page.loading = FALSE]
       IN IF LegacyPassView(shown.page) = "navigate"
          THEN /\ Within(walk, PassRoute)
               /\ walk' = Navigate(shown, PassRoute)
          ELSE walk' = shown
    /\ returned' = [op |-> "legacyStatus", threw |-> FALSE, outcome |-> micro.outcome]
    /\ micro' = Idle
    /\ UNCHANGED <<cookie, storage, member, loading, isAuthenticated, href, phase,
                   inflight, emailVars, phoneVars, rendered, form, passPage,
                   payPage, rsvpPage, backend>>

\* The route /pass/:token has been reached: PassAccessPage mounts.
EnterPassPage ==
    /\ href = NoNav
    /\ walk.mounted
    /\ walk.at = PassRoute
    /\ OpenPassPage

\* PassAccessPage has navigated to /legacy-pass: the router unmounts it and
\* renders that route.
LeavePassPage ==
    /\ micro = Idle
    /\ walk.mounted
    /\ walk.at = PassRoute
    /\ passPage.mounted
    /\ passPage.location # PassRoute
    /\ Within(walk, passPage.location)
    /\ walk' = Navigate(walk, passPage.location)
    /\ passPage' = NotOpened
    /\ returned' = NoReturn
    /\ UNCHANGED <<sessionVarsButReturned, emailVars, phoneVars, rendered, form,
                   payPage, rsvpPage, backend>>

\* A member whose session is established enters one of the four pages; the
\* backend's answers for the RSVP and for the payment status are fixed.
InitRedirect ==
    /\ SignedIn({MemberObj("vip", GuestEmail)})
    /\ rendered = NotRendered
    /\ form = Unmounted
    /\ passPage = NotOpened
    /\ payPage = NotOpened
    /\ rsvpPage = NotOpened
    /\ walk \in {EnteredAt(loc) : loc \in MemberPages}
    /\ backend \in [fixed : {TRUE}, rsvp : FixedAnswers("checkRsvp"),
                     status : FixedAnswers("paymentStatus")]

NextRedirect ==
    \/ MountPaymentPage
    \/ MountLegacyPassPage
    \/ EnterPassPage
    \/ LeavePassPage
    \/ RespondFixed
    \/ ContinueCheckRsvp
    \/ ContinueCheckStatus
    \/ ContinueLegacyRsvp
    \/ ContinueLegacyPreview
    \/ ContinueLegacyStatus
    \/ ContinuePaymentStatus
    \/ ContinueFullPass
    \/ ContinuePassEvent
    \/ ContinuePassBenefits

SpecRedirect == InitRedirect /\ [][NextRedirect]_vars

----------------------------------------------------------------------------
(* The claims. *)

\* C1: in every reachable state, if the auth_token cookie is absent then
\* isAuthenticated is false, whatever the member_data record contains.
TokenAbsentImpliesUnauthenticated ==
    cookie = NoCookie => ~isAuthenticated

\* C2: when login returns {success: true}, the cookie holds the access_token the
\* backend returned, the member_data record holds the returned member, the
\* in-memory member is the returned member and isAuthenticated is true.
LoginSuccessPersists ==
    (returned.op = "login" /\ returned.value.success) =>
        /\ cookie = returned.outcome.data.access_token
        /\ storage.present
        /\ ~JSONparse(storage).threw
        /\ JSONparse(storage).val = returned.outcome.data.member
        /\ member = returned.outcome.data.member
        /\ returned.value.member = returned.outcome.data.member
        /\ isAuthenticated

\* C2 witness: a login has just succeeded over an earlier session of another
\* member and another token.
LoginSuccessWitness ==
    /\ returned.op = "login"
    /\ returned.value.success
    /\ returned.outcome.data.access_token = "token-2"
    /\ returned.outcome.data.member = MemberObj("vip", StaffEmail)

\* C3: when logout has completed, whatever the outcome of the backend request,
\* the cookie and the member_data record are absent, the in-memory member is
\* null and isAuthenticated is false.
LogoutClearsSession ==
    returned.op = "logout" =>
        /\ cookie = NoCookie
        /\ storage = NoItem
        /\ member = Null
        /\ ~isAuthenticated

\* C3 witness: a logout has completed whose backend request failed with a server error.
LogoutFailedWitness ==
    /\ returned.op = "logout"
    /\ returned.outcome.kind = "response"
    /\ returned.outcome.status = 500

\* C4: for every endpoint and caller, when a response has status 401 the cookie
\* and the member_data record are removed and the redirect to /access is set
\* before the caller's own error handling runs.
UnauthorizedClearsBeforeCaller ==
    (micro # Idle /\ micro.outcome.kind = "response" /\ micro.outcome.status = 401) =>
        /\ cookie = NoCookie
        /\ storage = NoItem
        /\ href = "/access"

\* C4 witness: a page's own request has just been answered 401 while the session
\* in memory is authenticated, and the page has not handled the rejection yet.
UnauthorizedWitness ==
    /\ micro # Idle
    /\ micro.call.op = "page"
    /\ micro.outcome.kind = "response"
    /\ micro.outcome.status = 401
    /\ isAuthenticated

\* The member's email is some text followed by the organization domain.
HasOrgEmail(m) ==
    /\ "email" \in DOMAIN m
    /\ \E n \in 0..Len(m.email) : m.email = SubSeq(m.email, 1, n) \o OrgDomain

\* C5: for an authenticated member the admin guard renders the protected content
\* only if the tier is admin or the email ends with the organization domain,
\* and once loading is false it renders it exactly then.
AdminGuardAdmitsExactlyAdmins ==
    isAuthenticated =>
        LET shown == AdminRoute(loading, isAuthenticated, member) = "children"
            admin == /\ member # Null
                     /\ (member.membership_tier = "admin" \/ HasOrgEmail(member))
        IN /\ shown => admin
           /\ ~loading => (shown <=> admin)
           /\ (~loading /\ ~admin) => AdminRoute(loading, isAuthenticated, member) = "access-denied"

\* C5 witness: an authenticated vip member with an organization email sees the
\* protected content.
AdminGuardWitness ==
    /\ isAuthenticated
    /\ ~loading
    /\ member = MemberObj("vip", StaffEmail)
    /\ AdminRoute(loading, isAuthenticated, member) = "children"

\* An initialization step failed: the cached profile did not parse, or the
\* profile fetch was rejected.
InitFailed(o) ==
    \/ o.kind = "cache" /\ o.corrupt
    \/ o.kind \in {"request", "setup"}
    \/ o.kind = "response" /\ ~IsSuccess(o)

\* C6: initialization never throws, and whenever a step of it fails the session
\* ends with member null, isAuthenticated false and loading false.
InitFailureClearsSession ==
    returned.op = "init" =>
        /\ ~returned.threw
        /\ InitFailed(returned.outcome) =>
              (member = Null /\ ~isAuthenticated /\ ~loading)

\* C6 witness: the profile fetch of the initialization was rejected after a
\* login had stored a profile in the meantime (the fetch is only made when no
\* profile is stored).
InitFailedWitness ==
    /\ returned.op = "init"
    /\ InitFailed(returned.outcome)
    /\ storage.present
    /\ storage.json
    /\ storage.val \in Members

\* The request-access call failed.
CallFailed(o) == ~IsSuccess(o)

\* C7: login never throws; for every failure of the request-access call it
\* resolves to success false with a non-empty error string, and it resolves to
\* success true with the member only when the call succeeded.
LoginResolvesToResult ==
    returned.op = "login" =>
        /\ ~returned.threw
        /\ CallFailed(returned.outcome) =>
              /\ ~returned.value.success
              /\ returned.value.error.t = "string"
              /\ returned.value.error.v # ""
        /\ returned.value.success =>
              /\ ~CallFailed(returned.outcome)
              /\ returned.value.member = returned.outcome.data.member

\* The shape the interceptor promises: status and message, and data for an HTTP error.
IsNormalized(e, o) ==
    /\ {"status", "message"} \subseteq DOMAIN e
    /\ o.kind = "response" => ("data" \in DOMAIN e /\ e.status = o.status)

\* C8: every failed API call rejects with the normalized object, also when the
\* body is null or has no detail field; no other exception reaches the caller.
RejectionIsNormalized ==
    (micro # Idle /\ ~micro.result.ok) =>
        IsNormalized(micro.result.error, micro.outcome)

\* The text has the shape the claim describes.
WellShapedEmail(s) ==
    /\ s # <<>>
    /\ \A i \in 1..Len(s) : s[i] \notin Whitespace
    /\ Cardinality({i \in 1..Len(s) : s[i] = "@"}) = 1
    /\ LET at == CHOOSE i \in 1..Len(s) : s[i] = "@"
       IN /\ at > 1
          /\ \E j \in (at + 2)..(Len(s) - 1) : s[j] = "."

\* C9: validateEmail returns valid true with an empty message exactly when the
\* text is non-empty, has no whitespace, has exactly one "@" with a non-empty
\* part before it and a "." after it that is neither the first nor the last
\* character of that part; otherwise valid false with a non-empty message.
ValidateEmailMatchesShape ==
    emailResult # NoResult =>
        IF WellShapedEmail(email)
        THEN emailResult.valid /\ emailResult.message = ""
        ELSE ~emailResult.valid /\ emailResult.message # ""

\* C9 witness: an address with dots on both sides of the "@" was validated and accepted.
ValidateEmailWitness ==
    /\ email = <<".", "@", "a", ".", "a">>
    /\ emailResult.valid

\* The places of the digits of s, and the k-th digit of s.
DigitPlaces(s) == {i \in 1..Len(s) : s[i] \in Digits}
NthDigit(s, k) ==
    s[CHOOSE i \in DigitPlaces(s) : Cardinality({j \in DigitPlaces(s) : j <= i}) = k]

\* Where the digits stand in "(ddd) ddd-dddd".
FormattedSlots == <<2, 3, 4, 7, 8, 9, 11, 12, 13, 14>>

\* C10: formatPhoneNumber returns "(ddd) ddd-dddd" built from the digits of the
\* input in their order when the input has exactly 10 digits, and the input
\* unchanged for every other digit count.
FormatPhoneMatchesClaim ==
    phoneResult # NoPhoneResult =>
        IF Cardinality(DigitPlaces(phone)) = 10
        THEN /\ Len(phoneResult) = 14
             /\ phoneResult[1] = "(" /\ phoneResult[5] = ")" /\ phoneResult[6] = " "
             /\ phoneResult[10] = "-"
             /\ \A k \in 1..10 : phoneResult[FormattedSlots[k]] = NthDigit(phone, k)
        ELSE phoneResult = phone

\* C10 witness: ten digits around a separator were typed and came back formatted.
FormatPhoneWitness ==
    /\ Cardinality(DigitPlaces(phone)) = 10
    /\ Len(phone) = 11
    /\ phoneResult # NoPhoneResult
    /\ phoneResult # phone


----------------------------------------------------------------------------
(* Claims C11..C20. *)

\* A call of operation op is awaited: its request is in flight, or its
\* response has settled and its caller has not yet continued.
Awaiting(op) ==
    \/ [op |-> op] \in BagToSet(inflight)
    \/ (micro # Idle /\ micro.call.op = op)

\* initializeAuth has run to its end.
InitCompleted == phase = "ready" /\ ~Awaiting("init")

\* C11: whenever initialization has completed and no login or logout is in
\* flight, a persisted auth_token cookie implies that isAuthenticated is true,
\* also after an initialization whose profile fetch failed with a non-401 error.
TokenPresentImpliesAuthenticated ==
    (InitCompleted /\ ~Awaiting("login") /\ ~Awaiting("logout") /\ cookie # NoCookie)
        => isAuthenticated

\* C12: the member guard's output follows from loading and isAuthenticated
\* alone: the spinner whenever loading is true, the redirect to /access when
\* loading is false and isAuthenticated is false, and the protected content
\* only when loading is false and isAuthenticated is true.
PrivateGuardFollowsLoadingAndAuth ==
    rendered.guard = "private" =>
        /\ loading => rendered.out = "spinner"
        /\ (~loading /\ ~isAuthenticated) => rendered.out = "navigate:/access"
        /\ rendered.out = "children" => (~loading /\ isAuthenticated)
        /\ rendered.out \in {"spinner", "navigate:/access", "children"}

\* C12 witness: the member guard rendered the spinner for an authenticated
\* session that is loading.
PrivateGuardWitness ==
    /\ rendered.guard = "private"
    /\ loading
    /\ isAuthenticated
    /\ rendered.out = "spinner"

\* The member carries one of the two admin marks.
PassesAdminCheck(m) ==
    /\ m # Null
    /\ \/ ("membership_tier" \in DOMAIN m /\ m.membership_tier = "admin")
       \/ HasOrgEmail(m)

InFlight(op) == CopiesIn([op |-> op], inflight)

\* C14: refreshMember on success sets the in-memory member and the member_data
\* record to the fetched profile and returns it; on every failure it rethrows
\* the error, and no step of it changes the in-memory member or
\* isAuthenticated.
RefreshMemberContract ==
    /\ [](returned.op = "refresh" =>
            IF IsSuccess(returned.outcome)
            THEN /\ ~returned.threw
                 /\ returned.value = returned.outcome.data
                 /\ member = returned.outcome.data
                 /\ JSONparse(storage) = [threw |-> FALSE, val |-> returned.outcome.data]
            ELSE returned.threw)
    /\ [][ /\ InFlight("refresh")' > InFlight("refresh")
              => (member' = member /\ isAuthenticated' = isAuthenticated)
           /\ (micro = Idle /\ micro' # Idle /\ micro'.call.op = "refresh")
              => (member' = member /\ isAuthenticated' = isAuthenticated)
           /\ (micro # Idle /\ micro.call.op = "refresh" /\ ~IsSuccess(micro.outcome))
              => /\ member' = member
                 /\ isAuthenticated' = isAuthenticated
                 /\ returned'.op = "refresh"
                 /\ returned'.threw
                 /\ returned'.error = micro.result.error ]_vars

\* C14 witness: a refresh has failed and rethrown while the session holds an
\* authenticated member.
RefreshFailedWitness ==
    /\ returned.op = "refresh"
    /\ returned.threw
    /\ isAuthenticated
    /\ member # Null

\* C15: every logout issues its backend request first; the cookie and the
\* member_data record are removed only once that request has settled; the
\* in-memory session is cleared after them; and the navigation logout leaves
\* pending is the full navigation to '/', also when the request failed, a 401
\* whose handler had set /access included.
LogoutOrder ==
    /\ [][ InFlight("logout")' > InFlight("logout")
              => UNCHANGED <<cookie, storage, member, isAuthenticated, href>> ]_vars
    /\ [][ (micro' # Idle /\ micro'.t = "serviceDone")
              => /\ micro # Idle
                 /\ micro.t = "settled"
                 /\ micro.call.op = "logout"
                 /\ InFlight("logout")' = InFlight("logout")
                 /\ cookie' = NoCookie
                 /\ storage' = NoItem
                 /\ UNCHANGED <<member, isAuthenticated, href>> ]_vars
    /\ [][ returned'.op = "logout"
              => /\ micro # Idle
                 /\ micro.t = "serviceDone"
                 /\ cookie = NoCookie
                 /\ storage = NoItem
                 /\ UNCHANGED <<cookie, storage>>
                 /\ member' = Null
                 /\ ~isAuthenticated'
                 /\ href' = "/" ]_vars

\* C15 witness: a logout whose request was answered 401 has finished, and the
\* pending navigation is the one to '/'.
LogoutAfterUnauthorizedWitness ==
    /\ returned.op = "logout"
    /\ returned.outcome.kind = "response"
    /\ returned.outcome.status = 401
    /\ href = "/"

\* The member_data record holds a profile.
CachedProfile == storage.present /\ storage.json /\ storage.val # Null

\* There is no cached profile: no record, or a record that holds JSON null.
NoCachedProfile == ~storage.present \/ (storage.json /\ storage.val = Null)

GuardsWaitForInitialization ==
    ~InitCompleted =>
        /\ PrivateRoute(loading, isAuthenticated) = "spinner"
        /\ AdminRoute(loading, isAuthenticated, member) = "spinner"

\* The operations that send a request through the api instance.
ApiOps == {"init", "login", "logout", "refresh", "page", "rsvp"}

\* C18: each API call of the session store or of a page sends at most one HTTP
\* request: neither the interceptor nor the caller of a failed call sends a
\* request again, and no call sends a second request to its own endpoint; only
\* a new user action or a new mount starts a call.
NoRetryAfterFailure ==
    [][ /\ (micro = Idle /\ micro' # Idle)
           => \A op \in ApiOps : InFlight(op)' <= InFlight(op)
        /\ micro # Idle
           => \A op \in ApiOps :
                 InFlight(op)' > InFlight(op) => (micro.result.ok /\ op # micro.call.op) ]_vars

\* C18 witness: a page's request has failed, its caller has handled the failure
\* and no request is in flight.
PageFailedOnceWitness ==
    /\ returned.op = "page"
    /\ ~IsSuccess(returned.outcome)
    /\ inflight = EmptyBag

\* The login calls of the mounted form instance that have not settled, or
\* whose result the form has not handled yet.
FormCallsPending ==
    CopiesIn(FormCall, inflight) + (IF micro # Idle /\ micro.call = FormCall THEN 1 ELSE 0)

FullPassRequested ==
    \/ Awaiting("fullPass")
    \/ Awaiting("passEvent")
    \/ passPage.pass # Null

\* C20: the full-pass page requests and displays the full Legacy Pass only
\* after the payment-status request has returned status 'verified'; for any
\* other status it redirects to /legacy-pass without requesting the full pass;
\* and when the payment-status request fails no full pass is requested or
\* displayed.
FullPassOnlyWhenVerified ==
    /\ [](passPage.mounted =>
            /\ FullPassRequested => passPage.paymentStatus = Str("verified")
            /\ PassPageView(passPage) = "full-pass" => passPage.paymentStatus = Str("verified")
            /\ (returned.op = "paymentStatus" /\ IsSuccess(returned.outcome)
                  /\ returned.outcome.data # Null
                  /\ returned.outcome.data # [t |-> "object", status |-> Str("verified")])
                  => /\ passPage.location = "/legacy-pass"
                     /\ ~FullPassRequested
            /\ (returned.op = "paymentStatus" /\ ~IsSuccess(returned.outcome))
                  => /\ ~FullPassRequested
                     /\ PassPageView(passPage) # "full-pass")
    /\ [][ InFlight("fullPass")' > InFlight("fullPass")
              => /\ micro # Idle
                 /\ micro.call.op = "paymentStatus"
                 /\ IsSuccess(micro.outcome)
                 /\ micro.outcome.data = [t |-> "object", status |-> Str("verified")] ]_vars

\* C20 witness: the payment status came back pending and the page has left
\* for /legacy-pass with no request for the full pass.
PassPendingWitness ==
    /\ returned.op = "paymentStatus"
    /\ IsSuccess(returned.outcome)
    /\ passPage.paymentStatus = Str("pending")
    /\ passPage.location = "/legacy-pass"
    /\ inflight = EmptyBag


----------------------------------------------------------------------------
(* Claims C21..C30. *)

\* C21: the HTTP client puts every failure into exactly one class: a failure
\* with a response rejects with the HTTP status and with the body's detail as
\* message, or 'An unexpected error occurred' when the body has none; a request
\* without a response rejects with status 0 and the network-error message; any
\* other failure rejects with status 0 and the error's own message, or
\* 'An error occurred'.
FailureIsClassified ==
    (micro # Idle /\ ~micro.result.ok) =>
        LET e == micro.result.error
            o == micro.outcome
        IN /\ {"status", "message"} \subseteq DOMAIN e
           /\ CASE o.kind = "response" ->
                       /\ e.status = o.status
                       /\ e.message = IF "detail" \in DOMAIN o.data
                                      THEN o.data.detail
                                      ELSE Str("An unexpected error occurred")
                [] o.kind = "request" ->
                       /\ e.status = 0
                       /\ e.message = Str("Network error. Please check your connection.")
                [] o.kind = "setup" ->
                       /\ e.status = 0
                       /\ e.message = IF o.message = Str("")
                                      THEN Str("An error occurred")
                                      ELSE o.message

\* C22: validatePhone returns valid true with an empty message exactly when
\* the text is non-empty and has at least 10 digits once every non-digit is
\* removed; otherwise it returns valid false with a non-empty message.
ValidatePhoneCountsDigits ==
    phoneCheck # NoResult =>
        LET digits == Cardinality({i \in 1..Len(phone) : phone[i] \in Digits})
        IN IF phone # <<>> /\ digits >= 10
           THEN phoneCheck = [valid |-> TRUE, message |-> ""]
           ELSE ~phoneCheck.valid /\ phoneCheck.message # ""

\* C22 witness: a text of ten digits and one separator has been found valid.
ValidatePhoneWitness ==
    /\ phoneCheck # NoResult
    /\ phoneCheck.valid
    /\ Len(phone) = 11
    /\ NonDigitCount(phone) = 1

\* C23: a response to a request sent before a login never overrides that
\* login: once a login has succeeded, the completion of the initialization's
\* profile fetch, which was started before it, leaves the in-memory member,
\* the cached profile and isAuthenticated as the login set them. (The session
\* is authenticated while the initialization still awaits its fetch only
\* through a login that has succeeded in the meantime.)
StaleFetchKeepsLogin ==
    [][ (micro # Idle /\ micro.call.op = "init" /\ isAuthenticated)
           => /\ member' = member
              /\ isAuthenticated' = isAuthenticated
              /\ storage' = storage ]_vars

\* The settled outcome is a 401 response.
IsUnauthorized(o) == o.kind = "response" /\ o.status = 401

\* C24 as stated: a login attempt that fails, with any error class, leaves the
\* auth_token cookie, the member_data record, the in-memory member and
\* isAuthenticated as they were before the attempt; only loading changes, and
\* it is false again when login returns.
FailedLoginChangesOnlyLoading ==
    [][ /\ InFlight("login")' > InFlight("login")
           => UNCHANGED <<cookie, storage, member, isAuthenticated>>
        /\ (micro = Idle /\ micro' # Idle /\ micro'.call.op = "login" /\ ~micro'.result.ok)
           => UNCHANGED <<cookie, storage, member, isAuthenticated>>
        /\ (micro # Idle /\ micro.call.op = "login" /\ micro.t = "settled" /\ ~micro.result.ok)
           => /\ UNCHANGED <<cookie, storage, member, isAuthenticated>>
              /\ ~loading' ]_vars

\* C24 as the code has it: a login attempt that fails leaves the in-memory
\* member and isAuthenticated as they were, and the cookie and the member_data
\* record too unless the failure is a 401 response, for which the interceptor
\* removes both and sets the navigation to /access; loading is false again
\* when login returns, and login returns success false.
FailedLoginFrame ==
    [][ /\ InFlight("login")' > InFlight("login")
           => UNCHANGED <<cookie, storage, member, isAuthenticated>>
        /\ (micro = Idle /\ micro' # Idle /\ micro'.call.op = "login" /\ ~micro'.result.ok)
           => /\ UNCHANGED <<member, isAuthenticated>>
              /\ IF IsUnauthorized(micro'.outcome)
                 THEN cookie' = NoCookie /\ storage' = NoItem /\ href' = "/access"
                 ELSE UNCHANGED <<cookie, storage, href>>
        /\ (micro # Idle /\ micro.call.op = "login" /\ micro.t = "settled" /\ ~micro.result.ok)
           => /\ UNCHANGED <<cookie, storage, member, isAuthenticated, href>>
              /\ ~loading'
              /\ returned'.op = "login"
              /\ ~returned'.value.success ]_vars

\* C24 witness: a login on an authenticated session has failed with a 401: the
\* cookie and the record are gone, member and isAuthenticated are kept.
FailedLoginUnauthorizedWitness ==
    /\ returned.op = "login"
    /\ ~returned.value.success
    /\ IsUnauthorized(returned.outcome)
    /\ cookie = NoCookie
    /\ storage = NoItem
    /\ isAuthenticated
    /\ member # Null
    /\ ~loading

Pending(op) ==
    LET waiting == {c \in BagToSet(inflight) : c.op = op}
    IN BagCardinality([c \in waiting |-> inflight[c]])
       + (IF micro # Idle /\ micro.call.op = op THEN 1 ELSE 0)

\* C26: on an admin list page, once every request the page started has
\* completed, the displayed list is the response to the request made for the
\* selected filter (or nothing has been displayed yet), whatever the filter
\* changes and the outcomes of the requests were.
DisplayedListMatchesFilter ==
    (payPage.mounted /\ Pending("payments") = 0 /\ Pending("verify") = 0) =>
        payPage.payments.for \in {"none", payPage.filter}

LoginOnlyWithValidEmail ==
    [][/\ CopiesIn(FormCall, inflight') > CopiesIn(FormCall, inflight) =>
             validateEmail(email).valid
       /\ (SubmitForm /\ ~validateEmail(email).valid) =>
             /\ form'.error = Str(validateEmail(email).message)
             /\ Truthy(form'.error)
             /\ UNCHANGED <<cookie, storage, member, loading, isAuthenticated,
                            href, inflight>>]_vars

\* C30 witness: an address whose domain has no dot has been submitted: the form
\* shows the validation message and no call awaits a response.
InvalidEmailRejectedWitness ==
    /\ form.mounted
    /\ email = <<"a", "@", "a">>
    /\ form.error = Str("Please provide a valid email address.")
    /\ ~form.loading
    /\ inflight = EmptyBag
    /\ ~isAuthenticated


\* C27: against a backend whose answers to GET /api/rsvp/me and to
\* GET /api/payment/status/:token are fixed, the automatic redirects among
\* /payment, /legacy-pass, /pass/:token and /rsvp lead to no page a second time.
NoPageRedirectedToTwice ==
    walk.mounted => \A p \in MemberPages : walk.redirectedTo[p] <= 1

============================================================================
